---- MODULE Spec2Model ----
(***************************************************************************)
(* A model of dnsolve's native resolution layer (src/native/src):          *)
(*   lib.rs       the C boundary: dns_resolve, dns_reverse_lookup,         *)
(*                dns_free_string                                          *)
(*   resolver.rs  resolve, reverse_lookup, create_resolver,                *)
(*                parse_server_address, rdata_to_string                    *)
(*   response.rs  ResponseBuilder                                          *)
(* One call is in flight at a time (block_on runs it to completion); the   *)
(* only suspension point of a call is the await on the resolver, so each   *)
(* operation is two steps: the call up to the await, and the continuation  *)
(* that runs when the resolver answers.                                    *)
(***************************************************************************)
EXTENDS Integers, Sequences, FiniteSets, TLC

VARIABLES
    pc,        \* "idle" | "awaiting" | "done": where the call in flight is
    args,      \* the arguments of the call in flight, as the caller gave them
    frame,     \* the locals the suspended future holds across the await
    queries,   \* the queries handed to the resolver by the call in flight
    outcome,   \* what the resolver answered to the call in flight (Option)
    built,     \* the ResponseBuilder that build() consumed (Option)
    returned   \* the JSON buffers handed to the caller and not yet freed

vars == <<pc, args, frame, queries, outcome, built, returned>>

\* ----------------------------------------------------------------- bounds

\* The longest record (or host name) list the resolver answers with.
MaxRecords == 2

\* ------------------------------------------------- Option and Result

None == <<>>
Some(x) == <<x>>
Ok(v) == [ok |-> TRUE, val |-> v]
Err(e) == [ok |-> FALSE, err |-> e]

\* --------------------------------------------------------- status codes

RCODE_NOERROR == 0
RCODE_FORMERR == 1
RCODE_SERVFAIL == 2
RCODE_NXDOMAIN == 3
RCODE_NOTIMP == 4
RCODE_REFUSED == 5

\* u16::from(RecordType::PTR)
PTR == 12

\* The default port of a name server given without one.
DEFAULT_PORT == 53

\* `x as u16` of a C int.
as_u16(x) == x % 65536

\* ------------------------------------------------------------ C strings

\* A C string is its bytes read as text, and whether they are valid UTF-8.
CString(t) == [utf8 |-> TRUE, text |-> t]
BadUtf8 == [utf8 |-> FALSE, text |-> "\\xff\\xfe"]

\* A pointer is null (None) or points to a C string.
NULL == None
Ptr(c) == Some(c)

\* CStr::to_str
to_str(c) == IF c.utf8 THEN Ok(c.text) ELSE Err("Utf8Error")

\* Result::ok
ok(r) == IF r.ok THEN Some(r.val) ELSE None

nullable_c_str(ptr) == IF ptr = NULL THEN None ELSE ok(to_str(ptr[1]))

\* -------------------------------------------- std::net parsing (FromStr)

V4(a, b, c, d) == [v |-> 4, octets |-> <<a, b, c, d>>]
V6(bytes) == [v |-> 6, octets |-> bytes]

Loopback6 == <<0, 0, 0, 0, 0, 0, 0, 0, 0, 0, 0, 0, 0, 0, 0, 1>>
Doc6 == <<32, 1, 13, 184, 0, 0, 0, 0, 0, 0, 0, 0, 0, 0, 0, 1>>
LinkLocal6 == <<254, 128, 0, 0, 0, 0, 0, 0, 18, 52, 86, 120, 154, 188, 222, 240>>

\* IpAddr::from_str on the texts the model's callers pass.
IpAddr_from_str(s) ==
    CASE s = "192.0.2.5" -> Ok(V4(192, 0, 2, 5))
      [] s = "1.1.1.1" -> Ok(V4(1, 1, 1, 1))
      [] s = "203.0.113.77" -> Ok(V4(203, 0, 113, 77))
      [] s = "::1" -> Ok(V6(Loopback6))
      [] s = "2001:db8::1" -> Ok(V6(Doc6))
      [] s = "fe80::1234:5678:9abc:def0" -> Ok(V6(LinkLocal6))
      [] OTHER -> Err("invalid IP address syntax")

SocketAddr_new(ip, port) == [ip |-> ip, port |-> port]

\* SocketAddr::from_str on the texts the model's callers pass.
SocketAddr_from_str(s) ==
    CASE s = "1.1.1.1:53" -> Ok(SocketAddr_new(V4(1, 1, 1, 1), 53))
      [] s = "192.0.2.5:5353" -> Ok(SocketAddr_new(V4(192, 0, 2, 5), 5353))
      [] s = "[::1]:53" -> Ok(SocketAddr_new(V6(Loopback6), 53))
      [] OTHER -> Err("invalid socket address syntax")

\* ------------------------------------------------------ text formatting

\* format!("{:x}", n) of one nibble.
HexDigit(n) ==
    <<"0", "1", "2", "3", "4", "5", "6", "7",
      "8", "9", "a", "b", "c", "d", "e", "f">>[n + 1]

RECURSIVE join(_, _)
\* [String]::join(sep)
join(strs, sep) ==
    IF strs = <<>> THEN ""
    ELSE IF Len(strs) = 1 THEN strs[1]
    ELSE strs[1] \o sep \o join(Tail(strs), sep)

RECURSIVE to_hex(_)
\* Two lowercase hex digits per byte, no separator.
to_hex(bytes) ==
    IF bytes = <<>> THEN ""
    ELSE HexDigit(bytes[1] \div 16) \o HexDigit(bytes[1] % 16) \o to_hex(Tail(bytes))

\* Ipv4Addr's Display.
Ipv4_to_string(o) ==
    ToString(o[1]) \o "." \o ToString(o[2]) \o "." \o ToString(o[3]) \o "." \o ToString(o[4])

\* Ipv6Addr's Display on the addresses the model's records carry.
Ipv6_to_string(bytes) ==
    CASE bytes = Loopback6 -> "::1"
      [] bytes = Doc6 -> "2001:db8::1"
      [] OTHER -> "fe80::1234:5678:9abc:def0"

\* ------------------------------------------------------- ResponseBuilder

ResponseBuilder_new ==
    [status |-> 0, tc |-> FALSE, rd |-> TRUE, ra |-> TRUE, ad |-> FALSE, cd |-> FALSE,
     questions |-> <<>>, answers |-> <<>>, comment |-> None]

status(self, s) == [self EXCEPT !.status = s]

rd(self, b) == [self EXCEPT !.rd = b]

ra(self, b) == [self EXCEPT !.ra = b]

ad(self, b) == [self EXCEPT !.ad = b]

\* A faulty comment: the text is dropped.
comment_dropped(self, c) == self

comment(self, c) == [self EXCEPT !.comment = Some(c)]

add_question(self, name, record_type) ==
    [self EXCEPT !.questions = Append(@, [name |-> name, type |-> record_type])]

\* A faulty add_answer: an entry equal to one already held is not added.
add_answer_dedup(self, name, record_type, ttl, data) ==
    LET entry == [name |-> name, type |-> record_type, TTL |-> ttl, data |-> data]
    IN  IF \E i \in 1..Len(self.answers) : self.answers[i] = entry
        THEN self
        ELSE [self EXCEPT !.answers = Append(@, entry)]

add_answer(self, name, record_type, ttl, data) ==
    [self EXCEPT !.answers =
        Append(@, [name |-> name, type |-> record_type, TTL |-> ttl, data |-> data])]

\* A faulty build: the Question and Answer arrays are emitted even when empty.
build_always_arrays(self) ==
    [Status |-> self.status, TC |-> self.tc, RD |-> self.rd, RA |-> self.ra,
     AD |-> self.ad, CD |-> self.cd, Question |-> self.questions,
     Answer |-> self.answers]
    @@ (IF self.comment # None THEN [comment |-> self.comment[1]] ELSE <<>>)

\* The JSON object: a function from the keys it holds to their values.
build(self) ==
    [Status |-> self.status, TC |-> self.tc, RD |-> self.rd, RA |-> self.ra,
     AD |-> self.ad, CD |-> self.cd]
    @@ (IF self.questions # <<>> THEN [Question |-> self.questions] ELSE <<>>)
    @@ (IF self.answers # <<>> THEN [Answer |-> self.answers] ELSE <<>>)
    @@ (IF self.comment # None THEN [comment |-> self.comment[1]] ELSE <<>>)

error(st, message) ==
    [Status |-> st, TC |-> FALSE, RD |-> TRUE, RA |-> TRUE, AD |-> FALSE, CD |-> FALSE,
     comment |-> message]

\* ------------------------------------------------------ rdata_to_string

\* The RData variants, each with the payload its accessors read.
RData_A(o) == [variant |-> "A", octets |-> o]
RData_AAAA(b) == [variant |-> "AAAA", octets |-> b]
RData_CNAME(n) == [variant |-> "CNAME", name |-> n]
RData_NS(n) == [variant |-> "NS", name |-> n]
RData_PTR(n) == [variant |-> "PTR", name |-> n]
RData_MX(p, x) == [variant |-> "MX", preference |-> p, exchange |-> x]
RData_SOA(m, r, s, rf, rt, ex, mi) ==
    [variant |-> "SOA", mname |-> m, rname |-> r, serial |-> s, refresh |-> rf,
     retry |-> rt, expire |-> ex, minimum |-> mi]
RData_SRV(p, w, po, t) ==
    [variant |-> "SRV", priority |-> p, weight |-> w, port |-> po, target |-> t]
RData_TXT(strs) == [variant |-> "TXT", txt_data |-> strs]
RData_CAA(c, t, v) == [variant |-> "CAA", issuer_critical |-> c, tag |-> t, value |-> v]
RData_TLSA(u, s, m, d) ==
    [variant |-> "TLSA", cert_usage |-> u, selector |-> s, matching |-> m, cert_data |-> d]
RData_SSHFP(a, t, f) ==
    [variant |-> "SSHFP", algorithm |-> a, fingerprint_type |-> t, fingerprint |-> f]
RData_HINFO(c, o) == [variant |-> "HINFO", cpu |-> c, os |-> o]
RData_Other(v, d) == [variant |-> v, display |-> d]

rdata_to_string(rdata) ==
    CASE rdata.variant = "A" -> Ipv4_to_string(rdata.octets)
      [] rdata.variant = "AAAA" -> Ipv6_to_string(rdata.octets)
      [] rdata.variant = "CNAME" -> rdata.name
      [] rdata.variant = "MX" -> ToString(rdata.preference) \o " " \o rdata.exchange
      [] rdata.variant = "NS" -> rdata.name
      [] rdata.variant = "PTR" -> rdata.name
      [] rdata.variant = "SOA" ->
            rdata.mname \o " " \o rdata.rname \o " " \o ToString(rdata.serial) \o " "
            \o ToString(rdata.refresh) \o " " \o ToString(rdata.retry) \o " "
            \o ToString(rdata.expire) \o " " \o ToString(rdata.minimum)
      [] rdata.variant = "SRV" ->
            ToString(rdata.priority) \o " " \o ToString(rdata.weight) \o " "
            \o ToString(rdata.port) \o " " \o rdata.target
      [] rdata.variant = "TXT" -> "\"" \o join(rdata.txt_data, "") \o "\""
      [] rdata.variant = "CAA" ->
            ToString(IF rdata.issuer_critical THEN 128 ELSE 0) \o " " \o rdata.tag
            \o " \"" \o rdata.value \o "\""
      [] rdata.variant = "TLSA" ->
            ToString(rdata.cert_usage) \o " " \o ToString(rdata.selector) \o " "
            \o ToString(rdata.matching) \o " " \o to_hex(rdata.cert_data)
      [] rdata.variant = "SSHFP" ->
            ToString(rdata.algorithm) \o " " \o ToString(rdata.fingerprint_type) \o " "
            \o to_hex(rdata.fingerprint)
      [] rdata.variant = "HINFO" -> rdata.cpu \o " " \o rdata.os
      [] OTHER -> rdata.display

\* ------------------------------------------------------ create_resolver

Udp == "Udp"
Tcp == "Tcp"

NameServerConfig_new(socket_addr, protocol) ==
    [socket_addr |-> socket_addr, protocol |-> protocol]

\* ResolverConfig::new(): no name server yet.
ResolverConfig_new == [origin |-> "new", name_servers |-> <<>>]

\* ResolverConfig::default(): the library's built-in configuration.
ResolverConfig_default == [origin |-> "default", name_servers |-> <<>>]

add_name_server(config, ns) == [config EXCEPT !.name_servers = Append(@, ns)]

parse_server_address(server) ==
    IF SocketAddr_from_str(server).ok THEN Ok(SocketAddr_from_str(server).val)
    ELSE IF IpAddr_from_str(server).ok
        THEN Ok(SocketAddr_new(IpAddr_from_str(server).val, DEFAULT_PORT))
    ELSE Err("Invalid DNS server address: " \o server)

\* A faulty create_resolver: a server that does not parse falls back to the
\* default configuration.
create_resolver_fallback(dns_server, dnssec) ==
    LET opts == [validate |-> dnssec, use_hosts_file |-> TRUE]
        parsed == parse_server_address(dns_server[1])
    IN  IF dns_server # None /\ parsed.ok
        THEN Ok([config |->
                   add_name_server(
                     add_name_server(ResolverConfig_new,
                                     NameServerConfig_new(parsed.val, Udp)),
                     NameServerConfig_new(parsed.val, Tcp)),
                 opts |-> opts])
        ELSE Ok([config |-> ResolverConfig_default, opts |-> opts])

create_resolver(dns_server, dnssec) ==
    LET opts == [validate |-> dnssec, use_hosts_file |-> TRUE]
    IN  IF dns_server # None
        THEN LET parsed == parse_server_address(dns_server[1])
             IN  IF parsed.ok
                 THEN Ok([config |->
                            add_name_server(
                              add_name_server(ResolverConfig_new,
                                              NameServerConfig_new(parsed.val, Udp)),
                              NameServerConfig_new(parsed.val, Tcp)),
                          opts |-> opts])
                 ELSE Err(parsed.err)
        ELSE Ok([config |-> ResolverConfig_default, opts |-> opts])

\* ------------------------------------------------------------- resolver

\* The resolver's errors: ResolveErrorKind::NoRecordsFound with the response
\* code it embeds, and the other kinds.
NoRecordsFound(code) == [kind |-> "NoRecordsFound", response_code |-> code]
OtherError(kind) == [kind |-> kind]

\* ResolveError's Display.
Display(e) ==
    IF e.kind = "NoRecordsFound"
    THEN "no record found, response code: " \o e.response_code
    ELSE "resolver error: " \o e.kind

\* A faulty status match: an unlisted response code is reported as ServFail.
resolve_status_strict(e) ==
    IF e.kind = "NoRecordsFound"
    THEN CASE e.response_code = "NXDomain" -> RCODE_NXDOMAIN
           [] e.response_code = "Refused" -> RCODE_REFUSED
           [] e.response_code = "FormErr" -> RCODE_FORMERR
           [] e.response_code = "NotImp" -> RCODE_NOTIMP
           [] OTHER -> RCODE_SERVFAIL
    ELSE RCODE_SERVFAIL

\* The status match of resolve's Err arm.
resolve_status(e) ==
    IF e.kind = "NoRecordsFound"
    THEN CASE e.response_code = "NXDomain" -> RCODE_NXDOMAIN
           [] e.response_code = "Refused" -> RCODE_REFUSED
           [] e.response_code = "FormErr" -> RCODE_FORMERR
           [] e.response_code = "ServFail" -> RCODE_SERVFAIL
           [] e.response_code = "NotImp" -> RCODE_NOTIMP
           [] OTHER -> RCODE_NOERROR
    ELSE RCODE_SERVFAIL

\* A faulty status match: reverse_lookup classifies as resolve does.
reverse_status_wide(e) == resolve_status(e)

\* The status match of reverse_lookup's Err arm.
reverse_status(e) ==
    IF e.kind = "NoRecordsFound"
    THEN CASE e.response_code = "NXDomain" -> RCODE_NXDOMAIN
           [] OTHER -> RCODE_SERVFAIL
    ELSE RCODE_SERVFAIL

\* A record of a Lookup; data is Option<RData>.
Record(name, record_type, ttl, data) ==
    [name |-> name, record_type |-> record_type, ttl |-> ttl, data |-> data]

RECURSIVE add_records(_, _)
\* resolve's loop over lookup.record_iter(), from the builder it starts with.
add_records(builder, records) ==
    IF records = <<>> THEN builder
    ELSE LET record == Head(records)
             next == IF record.data # None
                     THEN add_answer(builder, record.name, record.record_type,
                                     record.ttl, rdata_to_string(record.data[1]))
                     ELSE builder
         IN  add_records(next, Tail(records))

RECURSIVE add_names(_, _, _)
\* reverse_lookup's loop over lookup.iter(), from the builder it starts with.
add_names(builder, ptr, names) ==
    IF names = <<>> THEN builder
    ELSE add_names(add_answer(builder, ptr, PTR, 0, Head(names)), ptr, Tail(names))

RECURSIVE rev(_)
\* Iterator::rev
rev(s) == IF s = <<>> THEN <<>> ELSE Append(rev(Tail(s)), Head(s))

RECURSIVE flat_map_nibbles(_)
\* The flat_map closure of reverse_lookup: each byte gives its low nibble,
\* then its high nibble.
flat_map_nibbles(bytes) ==
    IF bytes = <<>> THEN <<>>
    ELSE <<HexDigit(Head(bytes) % 16), HexDigit((Head(bytes) \div 16) % 16)>>
         \o flat_map_nibbles(Tail(bytes))

\* A faulty `nibbles`: the bytes are not reversed.
nibbles_unreversed(segments) == flat_map_nibbles(segments)

\* reverse_lookup's `nibbles` of an IPv6 address's octets.
nibbles(segments) == flat_map_nibbles(rev(segments))

\* reverse_lookup's `ptr_name`.
ptr_name(addr) ==
    IF addr.v = 4
    THEN ToString(addr.octets[4]) \o "." \o ToString(addr.octets[3]) \o "."
         \o ToString(addr.octets[2]) \o "." \o ToString(addr.octets[1])
         \o ".in-addr.arpa."
    ELSE join(nibbles(addr.octets), ".") \o ".ip6.arpa."

\* A query handed to the resolver: resolver.lookup(domain, rtype) or
\* resolver.reverse_lookup(addr).
LookupQuery(resolver, domain, rtype) ==
    [call |-> "lookup", resolver |-> resolver, name |-> domain, rtype |-> rtype]
ReverseQuery(resolver, addr) ==
    [call |-> "reverse_lookup", resolver |-> resolver, addr |-> addr]

\* What a call has when it stops: the value it returns, or the future
\* suspended on the query it sent.
Return(value) == [suspended |-> FALSE, value |-> value]
Await(query, locals) == [suspended |-> TRUE, query |-> query, locals |-> locals]

\* resolve, up to the await on resolver.lookup.
resolve(domain, record_type, dns_server, dnssec) ==
    LET resolver == create_resolver(dns_server, dnssec)
    IN  IF ~resolver.ok
        THEN Return(error(RCODE_SERVFAIL, "Failed to create resolver: " \o resolver.err))
        ELSE Await(LookupQuery(resolver.val, domain, record_type),
                   [op |-> "resolve", domain |-> domain, record_type |-> record_type,
                    dnssec |-> dnssec])

\* A faulty resolve: the Err arm sets AD from the dnssec flag, as the Ok arm does.
resolve_builder_ad_on_failure(locals, result) ==
    IF result.ok
    THEN add_records(
           add_question(ad(ra(rd(status(ResponseBuilder_new, RCODE_NOERROR), TRUE), TRUE),
                           locals.dnssec),
                        locals.domain, locals.record_type),
           result.val)
    ELSE add_question(
           comment(ad(ra(rd(status(ResponseBuilder_new, resolve_status(result.err)), TRUE),
                         TRUE),
                      locals.dnssec),
                   Display(result.err)),
           locals.domain, locals.record_type)

\* resolve, after the await: the builder that build() consumes.
resolve_builder(locals, result) ==
    IF result.ok
    THEN add_records(
           add_question(ad(ra(rd(status(ResponseBuilder_new, RCODE_NOERROR), TRUE), TRUE),
                           locals.dnssec),
                        locals.domain, locals.record_type),
           result.val)
    ELSE add_question(
           comment(ra(rd(status(ResponseBuilder_new, resolve_status(result.err)), TRUE),
                      TRUE),
                   Display(result.err)),
           locals.domain, locals.record_type)

\* A faulty reverse_lookup: the resolver is built before the IP literal is parsed.
reverse_lookup_resolver_first(ip, dns_server) ==
    LET addr == IpAddr_from_str(ip)
        resolver == create_resolver(dns_server, FALSE)
    IN  IF ~resolver.ok
        THEN Return(error(RCODE_SERVFAIL, "Failed to create resolver: " \o resolver.err))
        ELSE IF ~addr.ok
        THEN Return(error(RCODE_FORMERR,
                          "Invalid IP address '" \o ip \o "': " \o addr.err))
        ELSE Await(ReverseQuery(resolver.val, addr.val),
                   [op |-> "reverse_lookup", ptr_name |-> ptr_name(addr.val)])

\* reverse_lookup, up to the await on resolver.reverse_lookup.
reverse_lookup(ip, dns_server) ==
    LET addr == IpAddr_from_str(ip)
        resolver == create_resolver(dns_server, FALSE)
    IN  IF ~addr.ok
        THEN Return(error(RCODE_FORMERR,
                          "Invalid IP address '" \o ip \o "': " \o addr.err))
        ELSE IF ~resolver.ok
        THEN Return(error(RCODE_SERVFAIL, "Failed to create resolver: " \o resolver.err))
        ELSE Await(ReverseQuery(resolver.val, addr.val),
                   [op |-> "reverse_lookup", ptr_name |-> ptr_name(addr.val)])

\* reverse_lookup, after the await: the builder that build() consumes.
reverse_builder(locals, result) ==
    IF result.ok
    THEN add_names(
           add_question(ra(rd(status(ResponseBuilder_new, RCODE_NOERROR), TRUE), TRUE),
                        locals.ptr_name, PTR),
           locals.ptr_name, result.val)
    ELSE add_question(
           comment(ra(rd(status(ResponseBuilder_new, reverse_status(result.err)), TRUE),
                      TRUE),
                   Display(result.err)),
           locals.ptr_name, PTR)

\* ------------------------------------------------ the callers' arguments

Domains == {CString("example.com"), CString("nx.example."), BadUtf8}

\* record_type is a C int: 65537 does not fit 16 bits.
RecordTypes == {1, 15, 65535, 65537}

\* dns_server: a null pointer, bytes that are no text, or a text.
Servers ==
    {NULL, Ptr(BadUtf8), Ptr(CString("1.1.1.1")), Ptr(CString("192.0.2.5:5353")),
     Ptr(CString("[::1]:53")), Ptr(CString("not-an-ip"))}

\* dnssec is a C int: any value other than 0 asks for validation.
DnssecFlags == {0, 1, 2}

Ips ==
    {CString("192.0.2.5"), CString("203.0.113.77"), CString("::1"),
     CString("2001:db8::1"), CString("fe80::1234:5678:9abc:def0"),
     CString("not-an-ip"), CString("1.1.1.1:53"), BadUtf8}

\* ------------------------------------------------ the resolver's answers

SeqsUpTo(S, n) == UNION {[1..k -> S] : k \in 0..n}

SampleRecords ==
    {Record("example.com.", 1, 300, Some(RData_A(<<93, 184, 216, 34>>))),
     Record("example.com.", 15, 3600, Some(RData_MX(10, "mail.example.com."))),
     Record("example.com.", 16, 60, Some(RData_TXT(<<"v=spf1 ", "-all">>))),
     Record("_443._tcp.example.com.", 52, 120, Some(RData_TLSA(3, 1, 1, <<171, 205, 1>>))),
     Record("www.example.com.", 5, 0, Some(RData_CNAME("example.com."))),
     Record("example.com.", 1, 30, None)}

SampleNames == {"one.one.one.one.", "dns.example.", "localhost."}

ResponseCodes ==
    {"NoError", "FormErr", "ServFail", "NXDomain", "NotImp", "Refused", "YXDomain",
     "NotAuth"}

OtherKinds == {"Timeout", "Io", "Proto", "NoConnections", "Message"}

ResolveErrors ==
    {NoRecordsFound(c) : c \in ResponseCodes} \cup {OtherError(k) : k \in OtherKinds}

LookupResults ==
    {Ok(rs) : rs \in SeqsUpTo(SampleRecords, MaxRecords)}
    \cup {Err(e) : e \in ResolveErrors}

ReverseLookupResults ==
    {Ok(ns) : ns \in SeqsUpTo(SampleNames, MaxRecords)}
    \cup {Err(e) : e \in ResolveErrors}

\* ---------------------------------------------------------------- steps

NoArgs == [op |-> "none"]
NoFrame == [op |-> "none"]

Init ==
    /\ pc = "idle"
    /\ args = NoArgs
    /\ frame = NoFrame
    /\ queries = <<>>
    /\ outcome = None
    /\ built = None
    /\ returned = <<>>

\* to_c_string(&serde_json::to_string(&value)): the call returns the buffer.
\* The buffer is kept as the JSON document it holds.
to_c_string(value, builder) ==
    /\ pc' = "done"
    /\ frame' = NoFrame
    /\ built' = builder
    /\ returned' = Append(returned, value)

\* block_on drives the future to its first await, or to its end.
block_on(r) ==
    IF r.suspended
    THEN /\ pc' = "awaiting"
         /\ frame' = r.locals
         /\ queries' = Append(queries, r.query)
         /\ UNCHANGED <<built, returned>>
    ELSE /\ to_c_string(r.value, None)
         /\ UNCHANGED queries

dns_resolve(domain, record_type, dns_server, dnssec) ==
    /\ pc = "idle"
    /\ args' = [op |-> "dns_resolve", domain |-> domain, record_type |-> record_type,
                dns_server |-> dns_server, dnssec |-> dnssec]
    /\ outcome' = None
    /\ LET domain_str == to_str(domain)
       IN  IF ~domain_str.ok
           THEN /\ to_c_string(error(1, "Invalid UTF-8 in domain name"), None)
                /\ UNCHANGED queries
           ELSE block_on(resolve(domain_str.val, as_u16(record_type),
                                 nullable_c_str(dns_server), dnssec # 0))

\* The resolver answers the lookup and resolve runs to its end.
resolve_lookup_done(result) ==
    /\ pc = "awaiting"
    /\ frame.op = "resolve"
    /\ outcome' = Some(result)
    /\ to_c_string(build(resolve_builder(frame, result)),
                   Some(resolve_builder(frame, result)))
    /\ UNCHANGED <<args, queries>>

dns_reverse_lookup(ip, dns_server) ==
    /\ pc = "idle"
    /\ args' = [op |-> "dns_reverse_lookup", ip |-> ip, dns_server |-> dns_server]
    /\ outcome' = None
    /\ LET ip_str == to_str(ip)
       IN  IF ~ip_str.ok
           THEN /\ to_c_string(error(1, "Invalid UTF-8 in IP address"), None)
                /\ UNCHANGED queries
           ELSE block_on(reverse_lookup(ip_str.val, nullable_c_str(dns_server)))

\* The resolver answers the reverse lookup and reverse_lookup runs to its end.
reverse_lookup_done(result) ==
    /\ pc = "awaiting"
    /\ frame.op = "reverse_lookup"
    /\ outcome' = Some(result)
    /\ to_c_string(build(reverse_builder(frame, result)),
                   Some(reverse_builder(frame, result)))
    /\ UNCHANGED <<args, queries>>

\* The caller releases the buffer; the next call starts from nothing.
dns_free_string ==
    /\ pc = "done"
    /\ returned # <<>>
    /\ pc' = "idle"
    /\ args' = NoArgs
    /\ frame' = NoFrame
    /\ queries' = <<>>
    /\ outcome' = None
    /\ built' = None
    /\ returned' = <<>>

CallResolve ==
    \E domain \in Domains, record_type \in RecordTypes, dns_server \in Servers,
       dnssec \in DnssecFlags :
        dns_resolve(domain, record_type, dns_server, dnssec)

LookupAnswers == \E result \in LookupResults : resolve_lookup_done(result)

CallReverseLookup ==
    \E ip \in Ips, dns_server \in Servers : dns_reverse_lookup(ip, dns_server)

ReverseLookupAnswers ==
    \E result \in ReverseLookupResults : reverse_lookup_done(result)

Next ==
    \/ CallResolve
    \/ LookupAnswers
    \/ CallReverseLookup
    \/ ReverseLookupAnswers
    \/ dns_free_string

Spec == Init /\ [][Next]_vars

\* ------------------------------------------------------ the properties

\* The call in flight has returned, and Response is what it returned.
Done == pc = "done"
Response == returned[1]
HasKey(k) == k \in DOMAIN Response

IsResolve == args.op = "dns_resolve"
IsReverse == args.op = "dns_reverse_lookup"

\* How the call in flight ended.
LookupSucceeded == outcome # None /\ outcome[1].ok
LookupFailed == outcome # None /\ ~outcome[1].ok

\* A supplied server text that is neither a socket address nor an IP address.
ServerUnparsable ==
    /\ args.dns_server # NULL
    /\ args.dns_server[1].utf8
    /\ ~SocketAddr_from_str(args.dns_server[1].text).ok
    /\ ~IpAddr_from_str(args.dns_server[1].text).ok

\* The call in flight is one that fails before any query.
PreQueryFailure ==
    \/ IsResolve /\ (~args.domain.utf8 \/ ServerUnparsable)
    \/ IsReverse /\ (~args.ip.utf8 \/ ~IpAddr_from_str(args.ip.text).ok
                     \/ ServerUnparsable)

\* The status the classifier's rule gives each listed response code.
ListedCodes == [NXDomain |-> 3, Refused |-> 5, FormErr |-> 1, ServFail |-> 2, NotImp |-> 4]

\* C1: when the lookup of a Resolve call fails, the status is decided by the
\* error alone: "no records found" with NXDomain, Refused, FormErr, ServFail
\* or NotImp gives 3, 5, 1, 2 or 4, with any other code 0, and every other
\* error gives 2; the status of every Response is one of 0..5.
C1_ResolveFailureStatus ==
    Done =>
        /\ Response.Status \in 0..5
        /\ (IsResolve /\ LookupFailed) =>
              LET e == outcome[1].err
              IN  Response.Status =
                    IF e.kind = "NoRecordsFound"
                    THEN IF e.response_code \in DOMAIN ListedCodes
                         THEN ListedCodes[e.response_code]
                         ELSE 0
                    ELSE 2

\* A Resolve call failed with "no records found" and an unlisted code.
C1_Witness ==
    /\ Done /\ IsResolve /\ LookupFailed
    /\ outcome[1].err = NoRecordsFound("YXDomain")
    /\ Response.Status = 0

\* C2: when the reverse lookup of a ReverseLookup call fails, the status is 3
\* for "no records found" with NXDomain and 2 for every other error; the
\* Response has no Answer, has a comment, and its Question is the one entry
\* with the synthetic PTR name and type 12.
C2_ReverseFailure ==
    (Done /\ IsReverse /\ LookupFailed) =>
        /\ Response.Status =
              IF outcome[1].err = NoRecordsFound("NXDomain") THEN 3 ELSE 2
        /\ ~HasKey("Answer")
        /\ HasKey("comment")
        /\ HasKey("Question")
        /\ Response.Question =
              <<[name |-> ptr_name(IpAddr_from_str(args.ip.text).val), type |-> 12]>>

\* A reverse lookup failed with "no records found" and a code other than
\* NXDomain that the forward rule would have kept.
C2_Witness ==
    /\ Done /\ IsReverse /\ LookupFailed
    /\ outcome[1].err = NoRecordsFound("Refused")
    /\ Response.Status = 2
    /\ args.ip.text = "192.0.2.5"

\* The questions and answers added to the builder of the call in flight
\* (none on the paths that use error()).
QuestionsAdded == IF built = None THEN <<>> ELSE built[1].questions
AnswersAdded == IF built = None THEN <<>> ELSE built[1].answers

\* The lookup succeeded and gave nothing to answer with.
NothingToAnswer ==
    /\ LookupSucceeded
    /\ \A i \in 1..Len(outcome[1].val) :
          IsResolve /\ outcome[1].val[i].data = None

\* C3: in every Response the Question key is present iff a question was
\* added and the Answer key iff an answer was added; an array that is
\* present is not empty; a successful lookup with no answer entry gives
\* Status 0, a Question and no Answer.
C3_KeysPresence ==
    Done =>
        /\ HasKey("Question") <=> QuestionsAdded # <<>>
        /\ HasKey("Answer") <=> AnswersAdded # <<>>
        /\ HasKey("Question") => Len(Response.Question) >= 1
        /\ HasKey("Answer") => Len(Response.Answer) >= 1
        /\ NothingToAnswer =>
              Response.Status = 0 /\ HasKey("Question") /\ ~HasKey("Answer")

\* A successful lookup whose only record carries no data: no Answer key.
C3_Witness ==
    /\ Done /\ IsResolve /\ LookupSucceeded
    /\ Len(outcome[1].val) = 1
    /\ NothingToAnswer
    /\ ~HasKey("Answer")

\* C4: a Response with a status other than 0 has a comment, and the comment
\* is present exactly when the call did not end in a successful lookup.
C4_CommentOnFailure ==
    Done =>
        /\ Response.Status # 0 => HasKey("comment")
        /\ HasKey("comment") <=> ~LookupSucceeded

\* A failed lookup reported with status 0 still has its comment.
C4_Witness ==
    /\ Done /\ LookupFailed
    /\ Response.Status = 0
    /\ HasKey("comment")

\* The Answer array of the Response (empty when the key is absent), and the
\* records the resolver returned.
Answers == IF HasKey("Answer") THEN Response.Answer ELSE <<>>
Returned == outcome[1].val

\* The Answer entry of a record that carries data.
AnswerOf(record) ==
    [name |-> record.name, type |-> record.record_type, TTL |-> record.ttl,
     data |-> rdata_to_string(record.data[1])]

CarriesData(record) == record.data # None

\* The 16-bit record type code that the C int argument carries.
RecordTypeGiven == args.record_type % 65536

\* C5 as claimed: a successful Resolve gives Status 0, RD and RA true, the one
\* Question {domain as given, record_type as given} and one Answer entry per
\* returned record, in the order returned.
C5_AnswerPerRecord ==
    (Done /\ IsResolve /\ LookupSucceeded) =>
        /\ Response.Status = 0 /\ Response.RD /\ Response.RA
        /\ HasKey("Question")
        /\ Response.Question =
              <<[name |-> args.domain.text, type |-> RecordTypeGiven]>>
        /\ Len(Answers) = Len(Returned)
        /\ \A i \in 1..Len(Returned) :
              CarriesData(Returned[i]) => Answers[i] = AnswerOf(Returned[i])

\* C5 as the code has it: a successful Resolve gives Status 0, RD and RA true,
\* the one Question {domain as given, record_type as given} and one Answer
\* entry per returned record that carries data, in the order returned; a
\* record without data gives no entry.
C5_AnswerPerDataRecord ==
    (Done /\ IsResolve /\ LookupSucceeded) =>
        LET kept == SelectSeq(Returned, CarriesData)
        IN  /\ Response.Status = 0 /\ Response.RD /\ Response.RA
            /\ HasKey("Question")
            /\ Response.Question =
                  <<[name |-> args.domain.text, type |-> RecordTypeGiven]>>
            /\ Answers = [i \in 1..Len(kept) |-> AnswerOf(kept[i])]

\* Two records returned, the first without data: one Answer entry, the second's.
C5_Witness ==
    /\ Done /\ IsResolve /\ LookupSucceeded
    /\ Len(Returned) = 2
    /\ ~CarriesData(Returned[1]) /\ CarriesData(Returned[2])
    /\ Len(Answers) = 1
    /\ Answers[1].data = "10 mail.example.com."

\* C6 as claimed: every Response Resolve builds after sending its query, on
\* success and on failure alike, has AD equal to the dnssec flag; AD is false
\* in the Responses of error() and of ReverseLookup.
C6_AdFollowsDnssec ==
    Done =>
        Response.AD = (IsResolve /\ queries # <<>> /\ args.dnssec # 0)

\* C6 as the code has it: AD equals the dnssec flag in the Response of a
\* successful Resolve lookup only; it is false when the lookup failed, in the
\* Responses of error() and in every ReverseLookup Response.
C6_AdOnSuccessOnly ==
    Done =>
        Response.AD = (IsResolve /\ LookupSucceeded /\ args.dnssec # 0)

\* A Resolve call that asked for DNSSEC and whose lookup failed: AD is false.
C6_Witness ==
    /\ Done /\ IsResolve /\ LookupFailed
    /\ args.dnssec # 0
    /\ ~Response.AD

\* C7: a call queries the resolver at most once, and not at all when it fails
\* before the query (non-text domain or ip, an IP literal or a server text that
\* does not parse); such a call still returns exactly one Response.
C7_AtMostOneQuery ==
    /\ Len(queries) <= 1
    /\ Len(returned) <= 1
    /\ Done => Len(returned) = 1
    /\ (pc # "idle" /\ PreQueryFailure) => Done /\ queries = <<>>

\* A Resolve call with a server text that does not parse has returned.
C7_Witness ==
    /\ Done /\ IsResolve /\ ServerUnparsable
    /\ queries = <<>>
    /\ Len(returned) = 1

\* The endpoint a server text names: the socket address it is, or the IP
\* address it is with port 53.
EndpointOf(text) ==
    IF SocketAddr_from_str(text).ok
    THEN SocketAddr_from_str(text).val
    ELSE [ip |-> IpAddr_from_str(text).val, port |-> 53]

\* C8: with a server argument supplied, a query goes through a resolver
\* configured with exactly that name server, for UDP and for TCP; the default
\* configuration is used only when the argument is absent, also when the
\* supplied value is not valid text.
C8_NoDefaultFallback ==
    \A i \in 1..Len(queries) :
        LET config == queries[i].resolver.config
        IN  /\ config.origin = "default" => args.dns_server = NULL
            /\ args.dns_server # NULL =>
                  /\ args.dns_server[1].utf8
                  /\ Len(config.name_servers) = 2
                  /\ config.name_servers[1].protocol = "Udp"
                  /\ config.name_servers[2].protocol = "Tcp"
                  /\ config.name_servers[1].socket_addr
                        = EndpointOf(args.dns_server[1].text)
                  /\ config.name_servers[2].socket_addr
                        = EndpointOf(args.dns_server[1].text)

\* The status of a call that fails before any query.
PreQueryStatus ==
    IF IsResolve
    THEN IF ~args.domain.utf8 THEN 1 ELSE 2
    ELSE IF ~args.ip.utf8 \/ ~IpAddr_from_str(args.ip.text).ok THEN 1 ELSE 2

\* C9: a call that fails before the query returns the minimal error shape (no
\* Question, no Answer, AD false, a comment) with status 1 for a non-text
\* domain or ip and for an IP literal that does not parse, and 2 for a server
\* text that does not parse; the IP literal is checked first.
C9_PreQueryShape ==
    (Done /\ PreQueryFailure) =>
        /\ ~HasKey("Question") /\ ~HasKey("Answer")
        /\ ~Response.AD
        /\ HasKey("comment")
        /\ Response.Status = PreQueryStatus

\* A ReverseLookup call whose IP literal and server text both fail to parse.
C9_Witness ==
    /\ Done /\ IsReverse
    /\ args.ip.utf8 /\ ~IpAddr_from_str(args.ip.text).ok
    /\ ServerUnparsable
    /\ Response.Status = 1

RECURSIVE EmitNibbles(_, _)
\* Each byte, in the order given, as its two nibbles: low then high when
\* lowFirst, high then low otherwise.
EmitNibbles(bytes, lowFirst) ==
    IF bytes = <<>> THEN <<>>
    ELSE LET lo == HexDigit(Head(bytes) % 16)
             hi == HexDigit(Head(bytes) \div 16)
         IN  (IF lowFirst THEN <<lo, hi>> ELSE <<hi, lo>>)
             \o EmitNibbles(Tail(bytes), lowFirst)

\* The labels of a reversed nibble sequence joined with dots, under ip6.arpa.
Ip6ArpaName(labels) == join(rev(labels), ".") \o ".ip6.arpa."

\* The IPv6 address of a ReverseLookup call that got its answer.
ReverseOfV6 ==
    /\ Done /\ IsReverse /\ outcome # None
    /\ IpAddr_from_str(args.ip.text).val.v = 6
AddressBytes == IpAddr_from_str(args.ip.text).val.octets

\* C10 as claimed: the question name of an IPv6 address is its 16 bytes in
\* address order, each emitted low nibble then high nibble, the 32 nibbles
\* reversed, joined with dots, with .ip6.arpa. appended.
C10_LowNibbleFirst ==
    ReverseOfV6 =>
        Response.Question[1].name = Ip6ArpaName(EmitNibbles(AddressBytes, TRUE))

\* C10 as the code has it: the question name of an IPv6 address is its 16
\* bytes in address order, each emitted high nibble then low nibble, the 32
\* nibbles reversed, joined with dots, with .ip6.arpa. appended; the name has
\* 32 one-digit labels before ip6.arpa.
C10_HighNibbleFirst ==
    ReverseOfV6 =>
        /\ Len(EmitNibbles(AddressBytes, FALSE)) = 32
        /\ Response.Question[1].name = Ip6ArpaName(EmitNibbles(AddressBytes, FALSE))
        /\ Len(Response.Question[1].name) = 32 + 31 + Len(".ip6.arpa.")

\* The reverse lookup of fe80::1234:5678:9abc:def0 got its answer.
C10_Witness ==
    /\ ReverseOfV6
    /\ args.ip.text = "fe80::1234:5678:9abc:def0"
    /\ Response.Question[1].name =
          "0.f.e.d.c.b.a.9.8.7.6.5.4.3.2.1.0.0.0.0.0.0.0.0.0.0.0.0.0.8.e.f.ip6.arpa."

====
